---- MODULE Spec2Model ----
(***************************************************************************)
(* Model of project_mcp_server: the row-oriented Record Store             *)
(* (excel_handler.py, class ExcelHandler) and the tool dispatch           *)
(* (server.py, handle_call_tool) over one backing spreadsheet file.       *)
(*                                                                         *)
(* Text values of the source are written in ASCII:                         *)
(*   "project"  = プロジェクト   "status"   = 進行状況   "deadline" = 期限  *)
(*   "assignee" = 担当者         "notes"    = 備考                          *)
(*   "not_started" = 未着手  "in_progress" = 進行中  "done" = 完了          *)
(*   "cancelled" = 中止                                                     *)
(*                                                                         *)
(* Specifications: Spec (calls on the store, one at a time), ToolSpec       *)
(* (calls through handle_call_tool), ConcSpec (two writers whose loads     *)
(* and saves interleave), TaskSpec (two tool calls as tasks of one event   *)
(* loop), FreshSpec (two store objects, header edited between calls) and   *)
(* HeaderSpec (list_all under every small header row). `writers` is used   *)
(* by ConcSpec, TaskSpec and FreshSpec only.                               *)
(***************************************************************************)
EXTENDS Naturals, Integers, Sequences, FiniteSets, TLC

VARIABLES file, last, writers

vars == <<file, last, writers>>

(***************************************************************************)
(* Values.                                                                 *)
(***************************************************************************)
\* Python's None; an empty cell reads as None.
None == "None"

\* Marks a key that a dict does not hold.
Absent == "Absent"

\* The number 0 held by a numeric cell (cell values are passed through as
\* read, so a cell can hold a number).
Zero == "int:0"

\* Python truthiness of a cell value or string: None, "" and the number 0
\* are falsy.
Truthy(v) == v /= None /\ v /= "" /\ v /= Zero

\* ExcelHandler.VALID_STATUSES
VALID_STATUSES == {"not_started", "in_progress", "done", "cancelled"}

\* ExcelHandler.DEFAULT_COLUMNS, the five canonical column names.
DEFAULT_COLUMNS == <<"project", "status", "deadline", "assignee", "notes">>

\* Every dict key used: the canonical columns, one more column a file may
\* hold ("extra") and one key no header holds ("bogus_key").
Keys == {"project", "status", "deadline", "assignee", "notes", "extra", "bogus_key"}

\* A Python dict over Keys: D([project |-> "A"]) is {"project": "A"}.
D(f) == [k \in Keys |-> IF k \in DOMAIN f THEN f[k] ELSE Absent]

\* key in d
Has(d, k) == d[k] /= Absent

\* d.get(k) and d.get(k, default)
Get(d, k) == IF Has(d, k) THEN d[k] ELSE None

GetOr(d, k, default) == IF Has(d, k) THEN d[k] ELSE default

\* The keys a dict holds.
KeysOf(d) == {k \in Keys : Has(d, k)}

EmptyDict == D(<<>>)

(***************************************************************************)
(* Bounds and input samples.                                               *)
(***************************************************************************)
\* Most data rows a file holds in the model.
MaxRows == 2

Names == {"A", "B"}

\* The name values a caller passes: a name, the empty string, or None.
NameArgs == Names \cup {"", None}

\* What the environment does to the file accesses of one call: nothing, or
\* a PermissionError at the first load, at add's second load, or at the save.
IOFaults == {"none", "load", "reload", "save"}

(***************************************************************************)
(* The backing file: whether it exists, its header row (row 1) and its     *)
(* data rows (rows 2..max_row), every row as wide as the sheet.            *)
(***************************************************************************)
Sheet(header, rows) == [exists |-> TRUE, header |-> header, rows |-> rows]

MissingFile == [exists |-> FALSE, header |-> <<>>, rows |-> <<>>]

\* Outcome of a Record Store call: what it raised or returned, and the file
\* it left behind.
Raise(kind, f) == [outcome |-> kind, file |-> f, result |-> <<>>]

Return(f, r) == [outcome |-> "ok", file |-> f, result |-> r]

\* _load_workbook: the exception it raises, or "ok".
_load_workbook(f, denied) ==
    IF ~f.exists THEN "FileNotFoundError"
    ELSE IF denied THEN "FileAccessError"
    ELSE "ok"

\* What a cell holds after wb.save and the next load: openpyxl writes an
\* empty string as an empty cell, which loads as None.
Stored(v) == IF v = "" THEN None ELSE v

\* _save_workbook: the exception it raises, or "ok".
_save_workbook(denied) == IF denied THEN "FileAccessError" ELSE "ok"

\* The position (1-based) of the last header cell holding name n.
LastIndex(header, n) ==
    CHOOSE i \in 1..Len(header) :
        /\ header[i] = n
        /\ \A j \in 1..Len(header) : header[j] = n => j <= i

\* _get_header_mapping: the names it maps, and the zero-based index of each.
HeaderNames(header) == {header[i] : i \in {j \in 1..Len(header) : Truthy(header[j])}}

\* A mapping that keeps the first column of a name: `if cell.value and
\* cell.value not in headers`.
_get_header_mapping_first_wins(header) ==
    [n \in HeaderNames(header) |->
        (CHOOSE i \in 1..Len(header) :
            header[i] = n /\ \A j \in 1..Len(header) : header[j] = n => i <= j) - 1]

_get_header_mapping(header) ==
    [n \in HeaderNames(header) |-> LastIndex(header, n) - 1]

\* A validation that only asks for a non-empty status.
_validate_status_nonempty(status) == Truthy(status)

\* _validate_status
_validate_status(status) == status \in VALID_STATUSES

(***************************************************************************)
(* Reads.                                                                  *)
(***************************************************************************)
\* any(row)
any(row) == \E i \in 1..Len(row) : Truthy(row[i])

\* The dict get_all_projects builds for one row (its inner loop): each
\* truthy header within the row's length names the cell below it, a later
\* column of the same name overwriting an earlier one.
project_of(headers, row) ==
    [k \in Keys |->
        IF \E i \in 1..Len(headers) :
               Truthy(headers[i]) /\ headers[i] = k /\ i - 1 < Len(row)
        THEN row[CHOOSE i \in 1..Len(headers) :
                    /\ headers[i] = k /\ i - 1 < Len(row)
                    /\ \A j \in 1..Len(headers) :
                         (headers[j] = k /\ j - 1 < Len(row)) => j <= i]
        ELSE Absent]

\* The outer loop of get_all_projects: one dict per row that is not blank.
RECURSIVE projects_of(_, _)
projects_of(headers, rows) ==
    IF rows = <<>> THEN <<>>
    ELSE IF ~any(Head(rows)) THEN projects_of(headers, Tail(rows))
    ELSE <<project_of(headers, Head(rows))>> \o projects_of(headers, Tail(rows))

get_all_projects(f, io) ==
    LET wb == _load_workbook(f, io = "load")
    IN  IF wb /= "ok" THEN Raise(wb, f)
        ELSE Return(f, projects_of(f.header, f.rows))

\* The first project whose "project" field equals project_name, as a
\* sequence of one dict; <<>> for None.
RECURSIVE first_match(_, _)
first_match(projects, project_name) ==
    IF projects = <<>> THEN <<>>
    ELSE IF Get(Head(projects), "project") = project_name THEN <<Head(projects)>>
    ELSE first_match(Tail(projects), project_name)

get_project(f, io, project_name) ==
    LET all == get_all_projects(f, io)
    IN  IF all.outcome /= "ok" THEN all
        ELSE Return(f, first_match(all.result, project_name))

\* search_projects: the projects for which every filter key has an equal value.
RECURSIVE matching(_, _)
matching(projects, filters) ==
    IF projects = <<>> THEN <<>>
    ELSE LET p == Head(projects)
             match == \A k \in KeysOf(filters) : Get(p, k) = filters[k]
         IN  (IF match THEN <<p>> ELSE <<>>) \o matching(Tail(projects), filters)

search_projects(f, io, filters) ==
    LET all == get_all_projects(f, io)
    IN  IF all.outcome /= "ok" THEN all
        ELSE Return(f, matching(all.result, filters))

(***************************************************************************)
(* Writes.                                                                 *)
(***************************************************************************)
\* add_project's new row: "" in len(header_mapping) places, then the value
\* of every mapped column the record holds, at the column's index.
new_row_of(header_mapping, project_data) ==
    [i \in 1..Cardinality(DOMAIN header_mapping) |->
        IF \E c \in DOMAIN header_mapping :
               header_mapping[c] = i - 1 /\ Has(project_data, c)
        THEN project_data[CHOOSE c \in DOMAIN header_mapping :
                              header_mapping[c] = i - 1 /\ Has(project_data, c)]
        ELSE ""]

\* new_row[column_idx] = ... raises IndexError when a mapped column the
\* record holds lies at or beyond len(header_mapping).
new_row_index_error(header_mapping, project_data) ==
    \E c \in DOMAIN header_mapping :
        /\ Has(project_data, c)
        /\ header_mapping[c] >= Cardinality(DOMAIN header_mapping)

\* ws.append(new_row) as the saved file shows it: a row after the last one,
\* the cells beyond new_row empty; a new_row without cells adds no row.
ws_append(f, new_row) ==
    IF new_row = <<>> THEN f
    ELSE Sheet(f.header,
               Append(f.rows,
                      [i \in 1..Len(f.header) |->
                          IF i <= Len(new_row) THEN Stored(new_row[i]) ELSE None]))

\* `if existing == project_name:` compares the dict with the name: never true.
duplicate_check_against_name(existing) == FALSE

\* add_project's duplicate check: `if existing:` on get_project's result.
duplicate_check(existing) ==
    existing.result /= <<>> /\ KeysOf(existing.result[1]) /= {}

\* The first part of add_project, up to its duplicate check: the
\* validation of name and status, then get_project, which loads the file
\* as it is now; the exception raised, or "ok".
add_check(f, io, project_data) ==
    LET project_name == Get(project_data, "project")
        status == GetOr(project_data, "status", "not_started")
        existing == get_project(f, io, project_name)
    IN  IF ~Truthy(project_name) THEN "InvalidDataError"
        ELSE IF ~_validate_status(status) THEN "InvalidDataError"
        ELSE IF existing.outcome /= "ok" THEN existing.outcome
        ELSE IF duplicate_check(existing) THEN "DuplicateProjectError"
        ELSE "ok"

\* An add_project that looks for the name again in the workbook it loads
\* for the append.
add_append_checking_again(f, io, project_data) ==
    LET wb == _load_workbook(f, io = "reload")
        header_mapping == _get_header_mapping(f.header)
    IN  IF wb /= "ok" THEN Raise(wb, f)
        ELSE IF add_check(f, "none", project_data) /= "ok"
             THEN Raise(add_check(f, "none", project_data), f)
        ELSE IF new_row_index_error(header_mapping, project_data)
             THEN Raise("IndexError", f)
        ELSE IF _save_workbook(io = "save") /= "ok" THEN Raise("FileAccessError", f)
        ELSE Return(ws_append(f, new_row_of(header_mapping, project_data)), <<>>)

\* The second part of add_project: it loads the file again, as it is now,
\* builds the row, appends it and saves.
add_append(f, io, project_data) ==
    LET wb == _load_workbook(f, io = "reload")
        header_mapping == _get_header_mapping(f.header)
    IN  IF wb /= "ok" THEN Raise(wb, f)
        ELSE IF new_row_index_error(header_mapping, project_data)
             THEN Raise("IndexError", f)
        ELSE IF _save_workbook(io = "save") /= "ok" THEN Raise("FileAccessError", f)
        ELSE Return(ws_append(f, new_row_of(header_mapping, project_data)), <<>>)

\* add_project when no other writer touches the file during the call:
\* both parts find the same file.
add_project(f, io, project_data) ==
    IF add_check(f, io, project_data) /= "ok"
    THEN Raise(add_check(f, io, project_data), f)
    ELSE add_append(f, io, project_data)

\* A search loop whose target_row starts at 2 instead of None.
find_target_row_default_first(rows, project_col_idx, project_name) ==
    IF \E i \in 1..Len(rows) : rows[i][project_col_idx + 1] = project_name
    THEN 1 + CHOOSE i \in 1..Len(rows) :
                 /\ rows[i][project_col_idx + 1] = project_name
                 /\ \A j \in 1..(i - 1) : rows[j][project_col_idx + 1] /= project_name
    ELSE IF rows /= <<>> THEN 2 ELSE 0

\* The search loop of update_project and delete_project: the worksheet row
\* number (2 for the first data row) of the first row whose cell in column
\* project_col_idx equals project_name; 0 for None.
find_target_row(rows, project_col_idx, project_name) ==
    IF \E i \in 1..Len(rows) : rows[i][project_col_idx + 1] = project_name
    THEN 1 + CHOOSE i \in 1..Len(rows) :
                 /\ rows[i][project_col_idx + 1] = project_name
                 /\ \A j \in 1..(i - 1) : rows[j][project_col_idx + 1] /= project_name
    ELSE 0

\* ws.cell(row, column, value): openpyxl assigns the value unless it is None.
ws_cell(old, value) == IF value = None THEN old ELSE value

\* The update loop over one row: every key of updates that the mapping
\* holds is written to its column.
updated_row(row, header_mapping, updates) ==
    [i \in 1..Len(row) |->
        IF \E c \in DOMAIN header_mapping :
               header_mapping[c] = i - 1 /\ Has(updates, c)
        THEN Stored(ws_cell(row[i],
                 updates[CHOOSE c \in DOMAIN header_mapping :
                             header_mapping[c] = i - 1 /\ Has(updates, c)]))
        ELSE row[i]]

\* update_project after its status validation: load, locate, write, save.
update_located(f, io, project_name, updates) ==
    LET wb == _load_workbook(f, io = "load")
        header_mapping == _get_header_mapping(f.header)
        target_row == find_target_row(f.rows, header_mapping["project"], project_name)
    IN  IF wb /= "ok" THEN Raise(wb, f)
        ELSE IF "project" \notin DOMAIN header_mapping THEN Raise("InvalidDataError", f)
        ELSE IF target_row = 0 THEN Raise("ProjectNotFoundError", f)
        ELSE IF _save_workbook(io = "save") /= "ok" THEN Raise("FileAccessError", f)
        ELSE Return(Sheet(f.header,
                          [f.rows EXCEPT ![target_row - 1] =
                              updated_row(f.rows[target_row - 1], header_mapping, updates)]),
                    <<>>)

\* An update_project that validates the status after loading the workbook.
update_project_late_validation(f, io, project_name, updates) ==
    IF _load_workbook(f, io = "load") /= "ok"
    THEN Raise(_load_workbook(f, io = "load"), f)
    ELSE IF Has(updates, "status") /\ ~_validate_status(updates["status"])
    THEN Raise("InvalidDataError", f)
    ELSE update_located(f, io, project_name, updates)


update_project(f, io, project_name, updates) ==
    IF Has(updates, "status") /\ ~_validate_status(updates["status"])
    THEN Raise("InvalidDataError", f)
    ELSE update_located(f, io, project_name, updates)

\* A delete_rows that takes the data row index for the worksheet row number.
delete_rows_off_by_one(rows, idx) ==
    [i \in 1..(Len(rows) - 1) |-> IF i < idx THEN rows[i] ELSE rows[i + 1]]

\* ws.delete_rows(idx): row idx goes and the rows below move up.
delete_rows(rows, idx) ==
    [i \in 1..(Len(rows) - 1) |-> IF i < idx - 1 THEN rows[i] ELSE rows[i + 1]]

delete_project(f, io, project_name) ==
    LET wb == _load_workbook(f, io = "load")
        header_mapping == _get_header_mapping(f.header)
        target_row == find_target_row(f.rows, header_mapping["project"], project_name)
    IN  IF wb /= "ok" THEN Raise(wb, f)
        ELSE IF "project" \notin DOMAIN header_mapping THEN Raise("InvalidDataError", f)
        ELSE IF target_row = 0 THEN Raise("ProjectNotFoundError", f)
        ELSE IF _save_workbook(io = "save") /= "ok" THEN Raise("FileAccessError", f)
        ELSE Return(Sheet(f.header, delete_rows(f.rows, target_row)), <<>>)

(***************************************************************************)
(* The tool boundary: handle_call_tool.                                    *)
(***************************************************************************)
\* The keys of a tool call's arguments.
ArgKeys == {"project_name", "status", "deadline", "assignee", "notes"}

\* An arguments dict: Args([project_name |-> "A"]).
Args(f) == [k \in ArgKeys |-> IF k \in DOMAIN f THEN f[k] ELSE Absent]

NoArgs == Args(<<>>)

\* The exceptions handle_call_tool names in its except clauses.
ExcelHandlerErrors ==
    {"FileNotFoundError", "FileAccessError", "InvalidDataError",
     "ProjectNotFoundError", "DuplicateProjectError"}

\* The add_project branch's project_data.
tool_project_data(arguments) ==
    [k \in Keys |->
        CASE k = "project"  -> Get(arguments, "project_name")
          [] k = "status"   -> GetOr(arguments, "status", "not_started")
          [] k = "deadline" -> GetOr(arguments, "deadline", "")
          [] k = "assignee" -> GetOr(arguments, "assignee", "")
          [] k = "notes"    -> GetOr(arguments, "notes", "")
          [] OTHER          -> Absent]

\* The update_project branch's updates.
tool_updates(arguments) ==
    [k \in Keys |->
        IF k \in {"status", "deadline", "assignee", "notes"} THEN arguments[k]
        ELSE Absent]

\* The search_projects branch's filters.
tool_filters(arguments) ==
    [k \in Keys |->
        IF k \in {"status", "assignee"} THEN arguments[k] ELSE Absent]

\* A handler without the last except clause: what is not one of the five
\* error kinds propagates to the transport instead of becoming a text.
tool_text_without_catch_all(r, returned) ==
    IF r.outcome = "ok" THEN returned
    ELSE IF r.outcome \in ExcelHandlerErrors THEN "error"
    ELSE r.outcome

\* The text a branch returns: the try block's text when the store call
\* returned, the error text of the except clause that catches what it raised.
tool_text(r, returned) ==
    IF r.outcome = "ok" THEN returned
    ELSE IF r.outcome \in ExcelHandlerErrors THEN "error"
    ELSE "unexpected_error"

\* handle_call_tool: the store operation it calls with its name and dict
\* arguments, what that raised or returned, the file left behind, and the
\* kind of text returned to the transport.
ToolResult(op, project_name, data, r, returned) ==
    [op |-> op, name |-> project_name, data |-> data, outcome |-> r.outcome,
     file |-> r.file, result |-> r.result, text |-> tool_text(r, returned)]

handle_call_tool(f, io, name, arguments) ==
    LET project_name == Get(arguments, "project_name")
    IN  CASE name = "get_projects" ->
               ToolResult("get_all_projects", None, EmptyDict,
                          get_all_projects(f, io), "json")
          [] name = "get_project" ->
               LET r == get_project(f, io, project_name)
               IN  ToolResult("get_project", project_name, EmptyDict, r,
                              IF r.result /= <<>> /\ KeysOf(r.result[1]) /= {}
                              THEN "json" ELSE "not_found")
          [] name = "add_project" ->
               ToolResult("add_project", project_name, tool_project_data(arguments),
                          add_project(f, io, tool_project_data(arguments)), "added")
          [] name = "update_project" ->
               ToolResult("update_project", project_name, tool_updates(arguments),
                          update_project(f, io, project_name, tool_updates(arguments)),
                          "updated")
          [] name = "delete_project" ->
               ToolResult("delete_project", project_name, EmptyDict,
                          delete_project(f, io, project_name), "deleted")
          [] name = "search_projects" ->
               ToolResult("search_projects", None, tool_filters(arguments),
                          search_projects(f, io, tool_filters(arguments)), "json")
          [] OTHER ->
               ToolResult("none", None, EmptyDict, Return(f, <<>>), "unknown_tool")

(***************************************************************************)
(* Initial files and the inputs of the calls.                              *)
(***************************************************************************)
\* Headers: the canonical one; one with a blank first cell; one with a
\* column name twice; one without the identity column; one with a column of
\* its own and a blank last cell.
HeaderCanonical == DEFAULT_COLUMNS

HeaderLeadingBlank == <<None>> \o DEFAULT_COLUMNS

HeaderDuplicate == <<"project", "status", "status">>

HeaderNoIdentity == <<"status", "assignee">>

HeaderExtra == <<"project", "status", "extra", None>>

\* Files as the first call may find them: empty tables, a stored status
\* outside the enum, a blank row, a record without a name, a cell under a
\* blank header, and no file at all. Names are pairwise distinct.
InitFiles ==
    { MissingFile,
      Sheet(HeaderCanonical, <<>>),
      Sheet(HeaderCanonical, << <<"A", "bogus", None, "T", None>>,
                                <<None, None, None, None, None>> >>),
      Sheet(HeaderCanonical, << <<None, "done", None, None, None>> >>),
      Sheet(HeaderLeadingBlank, <<>>),
      Sheet(HeaderDuplicate, << <<"A", "done", "in_progress">> >>),
      Sheet(HeaderNoIdentity, << <<"done", "T">> >>),
      Sheet(HeaderExtra, << <<"B", None, "e", "z">> >>),
      Sheet(HeaderExtra, << <<None, None, Zero, None>> >>) }

\* Records passed to add_project.
Records ==
    { D([project |-> "A"]),
      D([project |-> "B", status |-> "in_progress", assignee |-> "T"]),
      D([project |-> "B", extra |-> "e", bogus_key |-> "x"]),
      D([project |-> "A", status |-> "bogus"]),
      D([project |-> "A", status |-> None]),
      D([status |-> "done"]),
      D([project |-> "", status |-> "done"]),
      D([project |-> None]) }

\* Patches passed to update_project.
Patches ==
    { EmptyDict,
      D([status |-> "in_progress"]),
      D([status |-> "bogus"]),
      D([assignee |-> "T", bogus_key |-> "x"]),
      D([assignee |-> ""]),
      D([assignee |-> None]),
      D([project |-> "B"]) }

\* Filters passed to search_projects.
Filters ==
    { EmptyDict,
      D([status |-> "in_progress"]),
      D([status |-> "in_progress", assignee |-> "T"]),
      D([assignee |-> None]),
      D([extra |-> ""]) }

\* Tool names a client calls: the six tools and a name that is none of them.
ToolNames ==
    {"get_projects", "get_project", "add_project", "update_project",
     "delete_project", "search_projects", "list_projects"}

\* Arguments passed to a tool call.
ToolArgs ==
    { NoArgs,
      Args([project_name |-> "A"]),
      Args([project_name |-> "A", deadline |-> "d"]),
      Args([project_name |-> "B", status |-> "in_progress", assignee |-> "T"]),
      Args([project_name |-> "A", status |-> "bogus"]),
      Args([status |-> "in_progress", assignee |-> "T"]) }

(***************************************************************************)
(* The state machine: one action per Record Store call, and the return to  *)
(* the caller. `last` records the call in progress: its arguments, what it *)
(* raised or returned, and the file before it. The store keeps nothing of  *)
(* a call once it has returned (its only field is file_path).              *)
(***************************************************************************)
NoCall ==
    [op |-> "idle", tool |-> "", args |-> NoArgs, name |-> None, data |-> EmptyDict,
     io |-> "none", outcome |-> "ok", result |-> <<>>, text |-> "", before |-> MissingFile]

\* A call made on the store object itself.
Call(op, name, data, io, r) ==
    /\ last.op = "idle"
    /\ Len(r.file.rows) <= MaxRows
    /\ file' = r.file
    /\ last' = [op |-> op, tool |-> "", args |-> NoArgs, name |-> name, data |-> data,
                io |-> io, outcome |-> r.outcome, result |-> r.result, text |-> "",
                before |-> file]
    /\ UNCHANGED writers

\* A writer of the concurrent specification before its call: where it is
\* in its operation (pc), the operation and its arguments, the file as
\* add's duplicate check found it (seen), the file as the operation loaded
\* it (base), the workbook it holds in memory (wb), the file its save
\* replaced (prev), what the call raised or returned, the number of file
\* accesses it has made (n) and the times of its load and of its save;
\* result is what a read returned, previous the header row as the store's
\* call before this one found it.
IdleWriter ==
    [pc |-> "idle", op |-> "idle", name |-> None, data |-> EmptyDict,
     seen |-> MissingFile, base |-> MissingFile, wb |-> MissingFile,
     prev |-> MissingFile, outcome |-> "ok", result |-> <<>>, n |-> 0,
     loadedAt |-> 0, savedAt |-> 0, previous |-> <<>>]

\* The callers that write to the same backing file at the same time.
Writers == {"w1", "w2"}

Init ==
    /\ file \in InitFiles
    /\ last = NoCall
    /\ writers = [w \in Writers |-> IdleWriter]

\* The call returns; the next call starts from the file alone.
Returned ==
    /\ last.op /= "idle"
    /\ last' = NoCall
    /\ UNCHANGED <<file, writers>>

ListAll ==
    \E io \in {"none", "load"} :
        Call("get_all_projects", None, EmptyDict, io, get_all_projects(file, io))

GetProject ==
    \E n \in NameArgs, io \in {"none", "load"} :
        Call("get_project", n, EmptyDict, io, get_project(file, io, n))

SearchProjects ==
    \E flt \in Filters, io \in {"none", "load"} :
        Call("search_projects", None, flt, io, search_projects(file, io, flt))

AddProject ==
    \E pd \in Records, io \in IOFaults :
        Call("add_project", Get(pd, "project"), pd, io, add_project(file, io, pd))

UpdateProject ==
    \E n \in NameArgs, u \in Patches, io \in {"none", "load", "save"} :
        Call("update_project", n, u, io, update_project(file, io, n, u))

DeleteProject ==
    \E n \in NameArgs, io \in {"none", "load", "save"} :
        Call("delete_project", n, EmptyDict, io, delete_project(file, io, n))

\* A tool call through handle_call_tool.
CallTool ==
    \E name \in ToolNames, arguments \in ToolArgs, io \in IOFaults :
        LET t == handle_call_tool(file, io, name, arguments)
        IN  /\ last.op = "idle"
            /\ Len(t.file.rows) <= MaxRows
            /\ file' = t.file
            /\ last' = [op |-> t.op, tool |-> name, args |-> arguments, name |-> t.name,
                        data |-> t.data, io |-> io, outcome |-> t.outcome,
                        result |-> t.result, text |-> t.text, before |-> file]
            /\ UNCHANGED writers

Next ==
    \/ ListAll
    \/ GetProject
    \/ SearchProjects
    \/ AddProject
    \/ UpdateProject
    \/ DeleteProject
    \/ Returned

\* Calls on the store object.
Spec == Init /\ [][Next]_vars

ToolNext ==
    \/ CallTool
    \/ Returned

\* Calls through the tool boundary.
ToolSpec == Init /\ [][ToolNext]_vars

(***************************************************************************)
(* Concurrent writers. Two callers, each with its own ExcelHandler on the  *)
(* same file_path, run one write operation each. The store takes no lock,  *)
(* so the steps of the two operations interleave freely; a step is one     *)
(* access to the file: a load (with everything the operation computes in   *)
(* memory from the workbook it loaded) or a save.                          *)
(***************************************************************************)
\* The files the concurrent writers start from.
ConcFiles ==
    { Sheet(HeaderCanonical, <<>>),
      Sheet(HeaderCanonical, << <<"A", "not_started", None, None, None>> >>) }

\* The records, names and patches the concurrent writers pass.
ConcRecords ==
    { D([project |-> "A"]),
      D([project |-> "B", status |-> "in_progress", assignee |-> "T"]) }

ConcPatches == { D([status |-> "in_progress"]), D([assignee |-> "T"]) }

ConcInit ==
    /\ file \in ConcFiles
    /\ last = NoCall
    /\ writers = [w \in Writers |-> IdleWriter]

\* The number of file accesses made so far.
Now == writers["w1"].n + writers["w2"].n

\* A save that writes to another path: the backing file keeps its content.
wb_save_elsewhere(wb, f) == f

\* wb.save(self.file_path): the file becomes the workbook held in memory,
\* whatever the file held.
wb_save(wb, f) == wb

\* add_project up to its duplicate check: get_project loads the file.
AddCheck(w) ==
    \E pd \in ConcRecords :
        LET me == writers[w]
            c == add_check(file, "none", pd)
        IN  /\ me.pc = "idle"
            /\ writers' = [writers EXCEPT ![w] =
                   [me EXCEPT !.op = "add_project", !.name = Get(pd, "project"),
                              !.data = pd, !.seen = file, !.outcome = c,
                              !.pc = IF c = "ok" THEN "add_load" ELSE "done",
                              !.n = @ + 1]]
            /\ UNCHANGED <<file, last>>

\* add_project after the check: it loads the file again and appends the
\* row to the workbook in memory.
AddLoad(w) ==
    LET me == writers[w]
        r == add_append(file, "none", me.data)
    IN  /\ me.pc = "add_load"
        /\ Len(r.file.rows) <= MaxRows
        /\ writers' = [writers EXCEPT ![w] =
               [me EXCEPT !.base = file, !.wb = r.file, !.outcome = r.outcome,
                          !.pc = IF r.outcome = "ok" THEN "save" ELSE "done",
                          !.n = @ + 1, !.loadedAt = Now + 1]]
        /\ UNCHANGED <<file, last>>

\* update_project up to its save: validation, load, search, and the cells
\* written in the workbook in memory.
UpdateLoad(w) ==
    \E name \in Names, updates \in ConcPatches :
        LET me == writers[w]
            r == update_project(file, "none", name, updates)
        IN  /\ me.pc = "idle"
            /\ writers' = [writers EXCEPT ![w] =
                   [me EXCEPT !.op = "update_project", !.name = name, !.data = updates,
                              !.base = file, !.wb = r.file, !.outcome = r.outcome,
                              !.pc = IF r.outcome = "ok" THEN "save" ELSE "done",
                              !.n = @ + 1, !.loadedAt = Now + 1]]
            /\ UNCHANGED <<file, last>>

\* delete_project up to its save: load, search, and the row removed from
\* the workbook in memory.
DeleteLoad(w) ==
    \E name \in Names :
        LET me == writers[w]
            r == delete_project(file, "none", name)
        IN  /\ me.pc = "idle"
            /\ writers' = [writers EXCEPT ![w] =
                   [me EXCEPT !.op = "delete_project", !.name = name,
                              !.base = file, !.wb = r.file, !.outcome = r.outcome,
                              !.pc = IF r.outcome = "ok" THEN "save" ELSE "done",
                              !.n = @ + 1, !.loadedAt = Now + 1]]
            /\ UNCHANGED <<file, last>>

\* _save_workbook of any of the three operations; the call then returns.
Save(w) ==
    LET me == writers[w]
    IN  /\ me.pc = "save"
        /\ file' = wb_save(me.wb, file)
        /\ writers' = [writers EXCEPT ![w] =
               [me EXCEPT !.prev = file, !.pc = "done", !.n = @ + 1,
                          !.savedAt = Now + 1]]
        /\ UNCHANGED last

ConcNext ==
    \/ \E w \in Writers : AddCheck(w)
    \/ \E w \in Writers : AddLoad(w)
    \/ \E w \in Writers : UpdateLoad(w)
    \/ \E w \in Writers : DeleteLoad(w)
    \/ \E w \in Writers : Save(w)

\* Two writers on one file, their loads and saves interleaved.
ConcSpec == ConcInit /\ [][ConcNext]_vars

(***************************************************************************)
(* Tool calls inside one server process. The transport hands every         *)
(* received invocation to handle_call_tool as a task of the one event      *)
(* loop (asyncio.run(main())); all tasks use the same global               *)
(* excel_handler. A task keeps the loop until it reaches an await or       *)
(* returns, so another task takes a step only when no task is inside a     *)
(* store operation, or when the one inside is suspended at an await.       *)
(***************************************************************************)
\* A handler that awaits between the store's load and its save.
suspension_point_before_save(pc) == pc = "save"

\* The places of a store operation at which handle_call_tool is suspended:
\* its body holds no await, so there is none.
suspension_point(pc) == FALSE

\* Task w is inside a store operation: it has loaded and not yet returned.
InStore(w) == writers[w].pc \in {"add_load", "save"}

\* The event loop lets task w take a step.
CanRun(w) ==
    \A v \in Writers \ {w} : InStore(v) => suspension_point(writers[v].pc)

\* The get_projects tool: get_all_projects in one step.
ReadAll(w) ==
    LET me == writers[w]
        r == get_all_projects(file, "none")
    IN  /\ me.pc = "idle"
        /\ writers' = [writers EXCEPT ![w] =
               [me EXCEPT !.op = "get_all_projects", !.base = file, !.wb = file,
                          !.outcome = r.outcome, !.result = r.result,
                          !.pc = "done", !.n = @ + 1, !.loadedAt = Now + 1]]
        /\ UNCHANGED <<file, last>>

\* The invocations are received together; last.before keeps the file as it
\* was then.
TaskInit ==
    /\ file \in ConcFiles
    /\ last = [NoCall EXCEPT !.before = file]
    /\ writers = [w \in Writers |-> IdleWriter]

TaskNext ==
    \/ \E w \in Writers : CanRun(w) /\ ReadAll(w)
    \/ \E w \in Writers : CanRun(w) /\ AddCheck(w)
    \/ \E w \in Writers : CanRun(w) /\ AddLoad(w)
    \/ \E w \in Writers : CanRun(w) /\ UpdateLoad(w)
    \/ \E w \in Writers : CanRun(w) /\ DeleteLoad(w)
    \/ \E w \in Writers : CanRun(w) /\ Save(w)

\* Two tool calls received concurrently by one server process.
TaskSpec == TaskInit /\ [][TaskNext]_vars

(***************************************************************************)
(* Stores without memory. Two ExcelHandler objects on the same file make   *)
(* whole calls one after the other, and between calls the header row of    *)
(* the file can be edited from outside. An ExcelHandler has one field,     *)
(* file_path; every method loads the workbook and reads row 1 anew.        *)
(***************************************************************************)
\* A store that keeps the header row of its first call and uses it for
\* every later call.
header_of_call_cached(f, previous) == IF previous = <<>> THEN f.header ELSE previous

\* The header row a call works with: row 1 of the workbook it has just
\* loaded, whatever the store's earlier calls found.
header_of_call(f, previous) == f.header

\* The canonical header with the names of two columns exchanged.
HeaderSwapped == <<"project", "assignee", "deadline", "status", "notes">>

\* The calls the stores make: operation, name and dict argument.
StoreCalls ==
    { [op |-> "get_all_projects", name |-> None, data |-> EmptyDict],
      [op |-> "get_project", name |-> "A", data |-> EmptyDict],
      [op |-> "search_projects", name |-> None, data |-> D([status |-> "in_progress"])],
      [op |-> "add_project", name |-> "B",
       data |-> D([project |-> "B", status |-> "in_progress", assignee |-> "T"])],
      [op |-> "update_project", name |-> "A", data |-> D([status |-> "done"])],
      [op |-> "delete_project", name |-> "A", data |-> EmptyDict] }

\* The public method c.op of ExcelHandler called with c's arguments on the
\* file f: what it returns or raises and the file it leaves.
Perform(c, f) ==
    CASE c.op = "get_all_projects" -> get_all_projects(f, "none")
      [] c.op = "get_project" -> get_project(f, "none", c.name)
      [] c.op = "search_projects" -> search_projects(f, "none", c.data)
      [] c.op = "add_project" -> add_project(f, "none", c.data)
      [] c.op = "update_project" -> update_project(f, "none", c.name, c.data)
      [] c.op = "delete_project" -> delete_project(f, "none", c.name)

\* One whole call of store w.
StoreCall(w) ==
    \E c \in StoreCalls :
        LET me == writers[w]
            r == Perform(c, Sheet(header_of_call(file, me.previous), file.rows))
        IN  /\ me.pc = "idle"
            /\ Len(r.file.rows) <= MaxRows
            /\ file' = r.file
            /\ writers' = [writers EXCEPT ![w] =
                   [me EXCEPT !.pc = "done", !.op = c.op, !.name = c.name,
                              !.data = c.data, !.base = file, !.wb = r.file,
                              !.outcome = r.outcome, !.result = r.result]]
            /\ UNCHANGED last

\* The call of store w has returned: the object keeps nothing of it.
StoreReturned(w) ==
    /\ writers[w].pc = "done"
    /\ writers' = [writers EXCEPT ![w] =
           [IdleWriter EXCEPT !.previous =
                header_of_call(writers[w].base, writers[w].previous)]]
    /\ UNCHANGED <<file, last>>

\* Someone edits row 1 of the file between two calls.
EditHeader ==
    /\ file' = [file EXCEPT !.header = IF file.header = HeaderCanonical
                                       THEN HeaderSwapped ELSE HeaderCanonical]
    /\ UNCHANGED <<last, writers>>

FreshNext ==
    \/ \E w \in Writers : StoreCall(w)
    \/ \E w \in Writers : StoreReturned(w)
    \/ EditHeader

\* Two stores on one file whose header row changes between calls.
FreshSpec == ConcInit /\ [][FreshNext]_vars

(***************************************************************************)
(* Header rows. The schema mapping and the field names of list_all are     *)
(* functions of row 1 alone; here the file starts with any header row of   *)
(* up to MaxHeader cells, blank cells and repeated names included, over    *)
(* one data row whose cells all differ, and get_all_projects is called.    *)
(***************************************************************************)
\* Most cells of a header row in this specification.
MaxHeader == 3

\* What a header cell holds: a column name, or nothing.
HeaderCells == {None, "project", "status", "extra"}

\* The cells of the data row, by column.
RowCells == <<"c1", "c2", "c3", "c4", "c5">>

\* Every header row of up to MaxHeader cells over a data row of that width.
HeaderFiles ==
    { Sheet(h, << [i \in 1..Len(h) |-> RowCells[i]] >>) :
        h \in UNION { [1..n -> HeaderCells] : n \in 0..MaxHeader } }

HeaderInit ==
    /\ file \in HeaderFiles
    /\ last = NoCall
    /\ writers = [w \in Writers |-> IdleWriter]

HeaderNext ==
    \/ ListAll
    \/ Returned

\* list_all on a file with any header row.
HeaderSpec == HeaderInit /\ [][HeaderNext]_vars

(***************************************************************************)
(* Properties.                                                             *)
(***************************************************************************)
\* The call in progress reached the store's operation op.
Did(op) == last.op = op

\* The file of the call in progress could be loaded.
Loaded == last.before.exists /\ last.io /= "load"

\* The header holds the identity column.
HasIdentity(f) == "project" \in HeaderNames(f.header)

\* The identity cell of data row i: the cell in the column the schema
\* mapping gives for "project".
IdentityCell(f, i) == f.rows[i][LastIndex(f.header, "project")]

\* The data rows whose identity cell equals name; none when the header
\* holds no identity column.
RowsNamed(f, name) ==
    IF HasIdentity(f) THEN {i \in 1..Len(f.rows) : IdentityCell(f, i) = name} ELSE {}

\* rows without its i-th row.
RemoveAt(rows, i) == SubSeq(rows, 1, i - 1) \o SubSeq(rows, i + 1, Len(rows))

\* The records list_all returns for a file.
Listed(f) == projects_of(f.header, f.rows)

\* What get(name) returns for a file that loads: <<>> or one record.
Resolved(f, name) == get_project(f, "none", name).result

\* An empty value: an empty cell or an empty string.
IsEmpty(v) == v = None \/ v = ""

\* C1: starting from a file whose records have pairwise distinct names,
\* after any sequence of add, update and delete calls (with any arguments,
\* an update patch holding the identity column included) the names of the
\* records list_all returns are still pairwise distinct.
C1_NamesStayDistinct ==
    file.exists =>
        \A i, j \in 1..Len(Listed(file)) :
            (i /= j /\ Has(Listed(file)[i], "project") /\ Has(Listed(file)[j], "project"))
                => Listed(file)[i]["project"] /= Listed(file)[j]["project"]

\* C2: a Record Store operation that fails raises one of the five error
\* kinds and leaves the file as it was before the call, whatever the header.
C2_FailuresClassifiedAndAtomic ==
    (last.op \in {"get_all_projects", "get_project", "add_project", "update_project",
                  "delete_project", "search_projects"} /\ last.outcome /= "ok")
        => (last.outcome \in ExcelHandlerErrors /\ file = last.before)

\* The argument of the add_project tool that supplies column k.
ArgOf(k) == IF k = "project" THEN "project_name" ELSE k

\* The set of canonical column names.
CanonicalColumns == {DEFAULT_COLUMNS[i] : i \in 1..Len(DEFAULT_COLUMNS)}

\* C3: for a valid record (non-empty name not yet present, status absent or
\* in the enum) added to a file whose header holds the canonical columns,
\* get(name) right afterwards returns a record whose supplied fields equal
\* the supplied values, whose status is "not_started" when none was
\* supplied, and whose other omitted columns are empty.
C3_AddThenGetReturnsRecord ==
    ( /\ last.tool = "add_project"
      /\ Loaded /\ last.io = "none"
      /\ CanonicalColumns \subseteq HeaderNames(last.before.header)
      /\ Truthy(Get(last.args, "project_name"))
      /\ (Has(last.args, "status") => last.args["status"] \in VALID_STATUSES)
      /\ Resolved(last.before, last.name) = <<>> )
    => ( /\ last.outcome = "ok"
         /\ Resolved(file, last.name) /= <<>>
         /\ \A k \in CanonicalColumns :
                LET got == Resolved(file, last.name)[1][k]
                IN  IF Has(last.args, ArgOf(k))
                    THEN \/ got = last.args[ArgOf(k)]
                         \/ IsEmpty(got) /\ IsEmpty(last.args[ArgOf(k)])
                    ELSE IF k = "status" THEN got = "not_started"
                    ELSE IsEmpty(got) )

\* The record of the add call in progress is valid: its name is non-empty
\* and its status is absent or in the enum.
ValidRecord(project_data) ==
    /\ Truthy(Get(project_data, "project"))
    /\ (Has(project_data, "status") => project_data["status"] \in VALID_STATUSES)

\* The patch of the update call in progress holds no status outside the enum.
ValidPatch(updates) ==
    Has(updates, "status") => updates["status"] \in VALID_STATUSES

\* C4 (as stated): add(record) with a name for which get(name) already
\* resolves fails with DuplicateRecord and leaves every row as it was.
C4_ExistingNameIsDuplicate ==
    (Did("add_project") /\ Loaded /\ Resolved(last.before, last.name) /= <<>>)
        => (last.outcome = "DuplicateProjectError" /\ file = last.before)

\* C4 (amended): add(record) with a valid record (non-empty name, status
\* absent or in the enum) whose name get(name) already resolves fails with
\* DuplicateRecord and leaves the header and every row as they were.
C4_ValidExistingNameIsDuplicate ==
    ( /\ Did("add_project") /\ Loaded
      /\ ValidRecord(last.data)
      /\ Resolved(last.before, last.name) /= <<>> )
    => (last.outcome = "DuplicateProjectError" /\ file = last.before)

\* A valid record whose name a row already holds was passed to add, which
\* raised DuplicateRecord.
C4_Witness ==
    /\ Did("add_project") /\ Loaded
    /\ ValidRecord(last.data)
    /\ RowsNamed(last.before, last.name) /= {}
    /\ last.outcome = "DuplicateProjectError"

\* The columns of a header named "status".
StatusColumns(header) == {c \in 1..Len(header) : header[c] = "status"}

\* C5: add fails with InvalidData and leaves the file unchanged whenever
\* the record's name is absent or empty or its status is present and
\* outside the enum; and no successful add or update stores a non-empty
\* status outside the enum: the status cells of the appended row, and the
\* status cells an update changed, are empty or in the enum.
C5_InvalidAddRejected ==
    /\ (Did("add_project") /\ ~ValidRecord(last.data))
           => (last.outcome = "InvalidDataError" /\ file = last.before)
    /\ (Did("add_project") /\ last.outcome = "ok")
           => \A i \in (Len(last.before.rows) + 1)..Len(file.rows) :
                  \A c \in StatusColumns(file.header) :
                      file.rows[i][c] \in VALID_STATUSES \cup {None}
    /\ (Did("update_project") /\ last.outcome = "ok")
           => \A i \in 1..Len(file.rows) :
                  \A c \in StatusColumns(file.header) :
                      file.rows[i][c] /= last.before.rows[i][c]
                          => file.rows[i][c] \in VALID_STATUSES \cup {None}

\* A record with a new name and a status outside the enum was passed to
\* add on a loadable file, which raised InvalidData.
C5_Witness ==
    /\ Did("add_project") /\ Loaded
    /\ Truthy(Get(last.data, "project"))
    /\ Resolved(last.before, last.name) = <<>>
    /\ Has(last.data, "status") /\ last.data["status"] \notin VALID_STATUSES
    /\ last.outcome = "InvalidDataError"

\* C6: update with a patch whose status is outside the enum fails with
\* InvalidData before the file is opened: also when the file is absent,
\* cannot be accessed, or holds no row of that name; no cell is modified.
C6_InvalidStatusFailsFast ==
    (Did("update_project") /\ ~ValidPatch(last.data))
        => (last.outcome = "InvalidDataError" /\ file = last.before)

\* update was called with a status outside the enum while the file was
\* absent, and raised InvalidData.
C6_Witness ==
    /\ Did("update_project") /\ ~ValidPatch(last.data)
    /\ ~last.before.exists
    /\ last.outcome = "InvalidDataError"

\* C7: update with a valid patch and a name that equals the identity cell
\* of no data row fails with NotFound and leaves the file unchanged; no
\* save is attempted (a save that would be refused changes nothing to it).
C7_UpdateUnknownNameNotFound ==
    ( /\ Did("update_project") /\ ValidPatch(last.data)
      /\ Loaded /\ HasIdentity(last.before)
      /\ RowsNamed(last.before, last.name) = {} )
    => (last.outcome = "ProjectNotFoundError" /\ file = last.before)

\* update was called with a valid, non-empty patch and a name no row of a
\* non-empty table holds, while a save would have been refused, and raised
\* NotFound.
C7_Witness ==
    /\ Did("update_project") /\ ValidPatch(last.data) /\ KeysOf(last.data) /= {}
    /\ last.before.rows /= <<>>
    /\ last.io = "save"
    /\ last.outcome = "ProjectNotFoundError"

ColumnOf(header, k) == IF k \in HeaderNames(header) THEN LastIndex(header, k) ELSE 0

\* C9: a successful update(name, patch) overwrites, in the first row whose
\* identity cell equals name, exactly the cells of the columns that are
\* keys of patch and in the schema, each with the patch value; every other
\* cell of the file is unchanged and keys outside the schema are ignored.
C9_UpdateWritesPatchValues ==
    (Did("update_project") /\ last.outcome = "ok")
        => /\ file.header = last.before.header
           /\ Len(file.rows) = Len(last.before.rows)
           /\ \E t \in RowsNamed(last.before, last.name) :
                /\ \A j \in RowsNamed(last.before, last.name) : t <= j
                /\ \A i \in 1..Len(file.rows) : \A c \in 1..Len(file.header) :
                     IF i = t /\ \E k \in KeysOf(last.data) : ColumnOf(file.header, k) = c
                     THEN \A k \in KeysOf(last.data) :
                            ColumnOf(file.header, k) = c
                                => \/ file.rows[i][c] = last.data[k]
                                   \/ IsEmpty(file.rows[i][c]) /\ IsEmpty(last.data[k])
                     ELSE file.rows[i][c] = last.before.rows[i][c]

\* C10: no successful update changes the identity cell of any row, and
\* after a successful update get(name) still resolves.
C10_UpdateNeverRenames ==
    (Did("update_project") /\ last.outcome = "ok")
        => /\ \A i \in 1..Len(file.rows) :
                IdentityCell(file, i) = IdentityCell(last.before, i)
           /\ Resolved(file, last.name) /= <<>>

\* The record p holds the field k with the value v.
FieldEquals(p, k, v) == Has(p, k) /\ p[k] = v

\* Every key of filters is a field of p with an equal value.
MatchesAll(p, filters) == \A k \in KeysOf(filters) : FieldEquals(p, k, filters[k])

\* The n-th smallest element of a set of indices.
NthOf(S, n) == CHOOSE i \in S : Cardinality({j \in S : j <= i}) = n

\* The elements of the sequence L at the indices in S, in L's order.
Picked(L, S) == [n \in 1..Cardinality(S) |-> L[NthOf(S, n)]]

\* C11: search(filters) returns, in file order, exactly the records of
\* list_all() in which every key of filters is a field with an equal
\* value: no such record is omitted and no other record is included (so
\* search({}) returns the records of list_all(), and a filter on status
\* and assignee returns the records matching both).
C11_SearchSelectsMatchingRecords ==
    (Did("search_projects") /\ last.outcome = "ok")
        => LET L == Listed(last.before)
           IN  last.result = Picked(L, {i \in 1..Len(L) : MatchesAll(L[i], last.data)})

\* C12: a record search(filters) returns holds every field named by a key
\* of filters, whatever the filter values (an empty or null value
\* included): a record lacking such a field never matches.
C12_RecordLackingFieldNeverMatches ==
    (Did("search_projects") /\ last.outcome = "ok")
        => \A n \in 1..Len(last.result) :
             \A k \in KeysOf(last.data) : Has(last.result[n], k)

\* The data rows of f that have at least one non-empty cell.
NonEmptyRows(f) ==
    {i \in 1..Len(f.rows) : \E c \in 1..Len(f.rows[i]) : f.rows[i][c] /= None}

\* The record p is the row read under the header: every non-blank header
\* name is a field holding the row's cell in a column of that name, and p
\* holds no other field (so a cell under a blank header is dropped).
IsRecordOf(p, header, row) ==
    \A k \in Keys :
        IF \E c \in 1..Len(header) : header[c] = k
        THEN \E c \in 1..Len(header) : header[c] = k /\ c <= Len(row) /\ p[k] = row[c]
        ELSE ~Has(p, k)

\* C13: list_all() returns one record per data row that has at least one
\* non-empty cell, in file order, and none for a row whose cells are all
\* empty; each record maps every non-blank header name to the row's cell
\* in that header's column and drops the cells under a blank header.
C13_ListAllReadsEveryNonEmptyRow ==
    (Did("get_all_projects") /\ last.outcome = "ok")
        => LET f == last.before
               S == NonEmptyRows(f)
           IN  /\ Len(last.result) = Cardinality(S)
               /\ \A n \in 1..Len(last.result) :
                    IsRecordOf(last.result[n], f.header, f.rows[NthOf(S, n)])

\* The store's three write operations.
WriteOps == {"add_project", "update_project", "delete_project"}

\* The data rows of f whose cells are all empty.
BlankRows(f) ==
    {i \in 1..Len(f.rows) : \A c \in 1..Len(f.rows[i]) : f.rows[i][c] = None}

\* C14: no write produces a blank row: after a successful add, update or
\* delete the file holds no more all-empty data rows than before the call.
C14_NoWriteProducesBlankRow ==
    (last.op \in WriteOps /\ last.outcome = "ok")
        => Cardinality(BlankRows(file)) <= Cardinality(BlankRows(last.before))

\* The arguments of the write in progress pass the operation's argument
\* validation (a non-empty name and a status in the enum for add, a status
\* in the enum for update).
ValidArguments ==
    /\ Did("add_project") => ValidRecord(last.data)
    /\ Did("update_project") => ValidPatch(last.data)

\* C15: when the header row does not hold the identity column, each of
\* add, update and delete (called with arguments that pass validation, on
\* a file that loads) fails with InvalidData and leaves the file unchanged.
C15_NoIdentityColumnIsInvalidData ==
    (last.op \in WriteOps /\ Loaded /\ ValidArguments /\ ~HasIdentity(last.before))
        => (last.outcome = "InvalidDataError" /\ file = last.before)

\* The kinds of text handle_call_tool returns: serialized records, the
\* not-found text of get_project, the three confirmations, the unknown-tool
\* text, the text of a store error and the text of an unexpected error.
ToolTexts ==
    {"json", "not_found", "added", "updated", "deleted", "unknown_tool",
     "error", "unexpected_error"}

\* C16: every tool call, for any tool name and any arguments, ends by
\* returning a text (serialized records, a confirmation or an error
\* message) and propagates nothing to the transport; a call that failed
\* leaves the file as it was, so every later call answers as if the failed
\* call had not been made.
C16_ToolCallAlwaysReturnsText ==
    last.tool /= ""
        => /\ last.text \in ToolTexts
           /\ last.text \in {"error", "unexpected_error"} <=> last.outcome /= "ok"
           /\ last.outcome /= "ok"
                => /\ file = last.before
                   /\ \A name \in ToolNames, arguments \in ToolArgs :
                        handle_call_tool(file, "none", name, arguments)
                            = handle_call_tool(last.before, "none", name, arguments)

\* C16 witness: a tool call in which the store raised something that is
\* none of the five error kinds, answered with the unexpected-error text.
C16_Witness ==
    /\ last.tool = "add_project"
    /\ last.outcome \notin ExcelHandlerErrors \cup {"ok"}
    /\ last.text = "unexpected_error"
    /\ file = last.before

\* The row is the record laid out under the header: as wide as the header,
\* each schema column's cell holding the record's value for the column
\* (an empty value stored as an empty cell), every other cell empty.
IsRowOf(row, header, project_data) ==
    /\ Len(row) = Len(header)
    /\ \A c \in 1..Len(header) :
         IF \E k \in HeaderNames(header) : LastIndex(header, k) = c /\ Has(project_data, k)
         THEN \A k \in HeaderNames(header) :
                (LastIndex(header, k) = c /\ Has(project_data, k))
                    => \/ row[c] = project_data[k]
                       \/ IsEmpty(row[c]) /\ IsEmpty(project_data[k])
         ELSE row[c] = None

\* C17: for every header that holds the identity column (headers with
\* blank cells or duplicate column names included) and every valid record
\* whose name is not yet present, add succeeds and appends exactly one row
\* after the existing rows, as wide as the header, holding the record's
\* value in each schema column and nothing elsewhere; keys outside the
\* schema are dropped and the existing rows are unchanged.
C17_AddAppendsRowUnderAnyHeader ==
    ( /\ Did("add_project") /\ Loaded /\ last.io = "none"
      /\ HasIdentity(last.before)
      /\ ValidRecord(last.data)
      /\ Resolved(last.before, last.name) = <<>> )
        => /\ last.outcome = "ok"
           /\ file.header = last.before.header
           /\ Len(file.rows) = Len(last.before.rows) + 1
           /\ SubSeq(file.rows, 1, Len(last.before.rows)) = last.before.rows
           /\ IsRowOf(file.rows[Len(file.rows)], file.header, last.data)

\* The data rows of f that get(name) can return: the rows list_all reads
\* whose record has the name in its identity field (dict.get semantics).
RowsGetReturns(f, name) ==
    {i \in 1..Len(f.rows) :
        any(f.rows[i]) /\ Get(project_of(f.header, f.rows[i]), "project") = name}

\* C18: get, update and delete locate the same row: for every file that
\* loads and holds the identity column (files with blank rows and with
\* duplicate names included) and every name (an empty or null name
\* included), update and
\* delete succeed exactly when get(name) resolves, the row they modify or
\* remove is the earliest row get(name) returns, and otherwise they fail
\* with NotFound.
C18_GetUpdateDeleteLocateSameRow ==
    ( /\ last.op \in {"update_project", "delete_project"}
      /\ Loaded /\ last.io = "none" /\ ValidArguments
      /\ HasIdentity(last.before) )
        => LET f == last.before
               S == RowsGetReturns(f, last.name)
           IN  IF Resolved(f, last.name) /= <<>>
               THEN /\ last.outcome = "ok"
                    /\ \E t \in S :
                         /\ \A j \in S : t <= j
                         /\ IF Did("delete_project")
                            THEN file.rows = RemoveAt(f.rows, t)
                            ELSE /\ Len(file.rows) = Len(f.rows)
                                 /\ \A i \in 1..Len(f.rows) :
                                      i /= t => file.rows[i] = f.rows[i]
               ELSE last.outcome = "ProjectNotFoundError" /\ file = f

\* The file writer q's operation leaves when it runs alone on the file f.
OpAlone(q, f) ==
    CASE writers[q].op = "add_project" -> add_append(f, "none", writers[q].data).file
      [] writers[q].op = "update_project" ->
             update_project(f, "none", writers[q].name, writers[q].data).file
      [] writers[q].op = "delete_project" ->
             delete_project(f, "none", writers[q].name).file
      [] OTHER -> f

\* Both writers reported success, q loaded the file before p saved it and
\* saved after p.
Overwrote(q, p) ==
    /\ p /= q
    /\ writers[p].pc = "done" /\ writers[p].outcome = "ok"
    /\ writers[q].pc = "done" /\ writers[q].outcome = "ok"
    /\ writers[q].loadedAt < writers[p].savedAt
    /\ writers[p].savedAt < writers[q].savedAt

\* C19: the store has no locking: when two successful writes interleave so
\* that the second saver loaded the file before the first saver saved,
\* the file reflects only the later save: it is what the later writer's
\* operation alone makes of the file as it was before the first save, and
\* the first writer's mutation is lost.
C19_LaterSaveOverwritesEarlier ==
    \A p, q \in Writers :
        Overwrote(q, p) => file = OpAlone(q, writers[p].prev)

\* C19 witness: both writers report success, the first saver changed the
\* file, and the file differs from what the two operations make one after
\* the other: the first mutation is lost.
C19_Witness ==
    \E p, q \in Writers :
        /\ Overwrote(q, p)
        /\ writers[p].wb /= writers[p].prev
        /\ file /= OpAlone(q, writers[p].wb)

\* Writer q is in an add whose check found no row of the name and whose
\* second load found one: another writer appended it in between.
AppendedBetweenLoads(q) ==
    /\ writers[q].op = "add_project"
    /\ writers[q].loadedAt > 0
    /\ RowsNamed(writers[q].seen, writers[q].name) = {}
    /\ RowsNamed(writers[q].base, writers[q].name) /= {}

\* C20: add reads the file twice: when another writer appends a row of the
\* same name between add's two loads, add still succeeds and the file it
\* saves holds two rows of that name; when the file is the same at add's
\* check, at its second load and at its save, the file it saves holds one.
C20_AddBetweenLoadsDuplicates ==
    \A q \in Writers :
        /\ AppendedBetweenLoads(q)
             => /\ writers[q].outcome = "ok"
                /\ writers[q].pc = "done"
                     => Cardinality(RowsNamed(file, writers[q].name)) >= 2
        /\ ( /\ writers[q].op = "add_project"
             /\ writers[q].pc = "done" /\ writers[q].outcome = "ok"
             /\ writers[q].base = writers[q].seen
             /\ writers[q].prev = writers[q].seen )
             => Cardinality(RowsNamed(writers[q].wb, writers[q].name)) = 1

\* C20 witness: an add that succeeded although another writer's add of the
\* same name was saved between its two loads; the file holds the name twice.
C20_Witness ==
    \E p, q \in Writers :
        /\ p /= q
        /\ AppendedBetweenLoads(q)
        /\ writers[q].pc = "done" /\ writers[q].outcome = "ok"
        /\ writers[p].op = "add_project" /\ writers[p].outcome = "ok"
        /\ writers[p].name = writers[q].name
        /\ Cardinality(RowsNamed(file, writers[q].name)) = 2

\* What task w's operation returns or raises, and the file it leaves, when
\* it runs from start to end on the file f with no other call in between.
CallAlone(w, f) ==
    CASE writers[w].op = "add_project" -> add_project(f, "none", writers[w].data)
      [] writers[w].op = "update_project" ->
             update_project(f, "none", writers[w].name, writers[w].data)
      [] writers[w].op = "delete_project" ->
             delete_project(f, "none", writers[w].name)
      [] writers[w].op = "get_all_projects" -> get_all_projects(f, "none")
      [] OTHER -> Return(f, <<>>)

\* The results of the two tasks and the file are those of running p's call
\* and then q's call on the file as it was when the calls were received.
SequentialOrder(p, q) ==
    LET rp == CallAlone(p, last.before)
        rq == CallAlone(q, rp.file)
    IN  /\ writers[p].outcome = rp.outcome /\ writers[p].result = rp.result
        /\ writers[q].outcome = rq.outcome /\ writers[q].result = rq.result
        /\ file = rq.file

\* C21: within one server process tool calls do not interleave inside the
\* store: once all concurrently received calls have returned, the file and
\* every result are those of some sequential order of the calls.
C21_ToolCallsSerialize ==
    (\A w \in Writers : writers[w].pc = "done")
        => \E p, q \in Writers : p /= q /\ SequentialOrder(p, q)

\* C21 witness: two updates of the same row with different patches have
\* both returned with success and the row holds both patches.
C21_Witness ==
    /\ \A w \in Writers :
         /\ writers[w].pc = "done" /\ writers[w].outcome = "ok"
         /\ writers[w].op = "update_project" /\ writers[w].name = "A"
    /\ writers["w1"].data /= writers["w2"].data
    /\ Len(file.rows) = 1
    /\ file.rows[1][2] = "in_progress" /\ file.rows[1][4] = "T"

\* The call store w has just made.
CallOf(w) == [op |-> writers[w].op, name |-> writers[w].name, data |-> writers[w].data]

\* C22: the store keeps no state between calls other than the file path:
\* what a call returns or raises and the file it leaves are a function of
\* the call's arguments and of the file as the call found it (so after an
\* edit of the header row the next call uses the new header), and two
\* stores making the same call on the same file get the same result and
\* leave the same file.
C22_StoreKeepsNoState ==
    /\ \A w \in Writers :
         writers[w].pc = "done"
            => LET r == Perform(CallOf(w), writers[w].base)
               IN  /\ writers[w].outcome = r.outcome
                   /\ writers[w].result = r.result
                   /\ writers[w].wb = r.file
    /\ \A p, q \in Writers :
         ( /\ writers[p].pc = "done" /\ writers[q].pc = "done"
           /\ CallOf(p) = CallOf(q) /\ writers[p].base = writers[q].base )
            => /\ writers[p].outcome = writers[q].outcome
               /\ writers[p].result = writers[q].result
               /\ writers[p].wb = writers[q].wb

\* C22 witness: a store whose call before found another header lists the
\* records under the header the file has now, and they differ from the
\* records the former header gives.
C22_Witness ==
    \E w \in Writers :
        /\ writers[w].pc = "done" /\ writers[w].op = "get_all_projects"
        /\ writers[w].previous /= <<>>
        /\ writers[w].previous /= writers[w].base.header
        /\ writers[w].result = projects_of(writers[w].base.header, writers[w].base.rows)
        /\ writers[w].result /= projects_of(writers[w].previous, writers[w].base.rows)

\* The data rows of f that list_all turns into records.
RowsRead(f) == {i \in 1..Len(f.rows) : any(f.rows[i])}

\* C23: the schema mapping of a header row maps each non-empty header cell
\* value to its zero-based position, holds no entry for a blank cell (none
\* at all for an empty header), and maps a name that occurs more than once
\* to its last position; list_all names the fields by the same rule: a
\* record holds exactly the mapped names, each with the cell of the column
\* the mapping points to.
C23_MappingLastWinsAndRecordsAgree ==
    (Did("get_all_projects") /\ last.outcome = "ok")
        => LET h == last.before.header
               m == _get_header_mapping(h)
           IN  /\ DOMAIN m = {h[i] : i \in 1..Len(h)} \ {None}
               /\ \A n \in DOMAIN m :
                    /\ m[n] \in 0..(Len(h) - 1)
                    /\ h[m[n] + 1] = n
                    /\ \A j \in 1..Len(h) : h[j] = n => j - 1 <= m[n]
               /\ Len(last.result) = Cardinality(RowsRead(last.before))
               /\ \A r \in 1..Len(last.result) : \A k \in Keys :
                    IF k \in DOMAIN m
                    THEN last.result[r][k] =
                            last.before.rows[NthOf(RowsRead(last.before), r)][m[k] + 1]
                    ELSE ~Has(last.result[r], k)

\* C23 witness: list_all under a header with a blank cell and a name in
\* two columns; the record shows the cell of the name's last column.
C23_Witness ==
    /\ Did("get_all_projects") /\ last.outcome = "ok"
    /\ last.before.header = <<"status", None, "status">>
    /\ _get_header_mapping(last.before.header) = [n \in {"status"} |-> 2]
    /\ Len(last.result) = 1
    /\ last.result[1]["status"] = "c3"

====
